---- MODULE Spec2Model ----
(***************************************************************************)
(* State-machine model of the KFR metadata extractor (src/app.py):         *)
(* KFRMetadataExtractor.extract_text_from_pdf, create_extraction_prompt,   *)
(* extract_metadata, validate_metadata and the button handler of main.     *)
(*                                                                         *)
(* Text produced by the PDF engines is a sequence of one-character         *)
(* strings, so that len(), strip() and += are computed as Python computes  *)
(* them.  The reply of the completion endpoint is a sequence of lexemes    *)
(* (fence, word, whitespace, JSON punctuation, JSON string, JSON number),  *)
(* on which the regular expression and the JSON parser work.               *)
(***************************************************************************)
EXTENDS Integers, Sequences, FiniteSets, TLC

VARIABLES
    pc,                 \* position of the running handler
    pdf,                \* the uploaded document (uploaded_file)
    page_num,           \* loop index of the running page loop
    text_content,       \* extract_text_from_pdf: the accumulator
    fast_text,          \* history: text_content when the fast pass ended
    fallback_text,      \* history: what the pdfplumber pass appended
    fallback_ran,       \* history: the pdfplumber pass was entered
    exc,                \* the exception in flight ("" when none)
    st_errors,          \* st.error messages of this run, in order
    ret_text,           \* value returned by extract_text_from_pdf
    user_inputs,        \* the hints mapping passed to extract_metadata
    request,            \* the messages of the completion request in flight
    requests,           \* completion requests issued in this run
    response_text,      \* response.choices[0].message.content
    metadata,           \* value returned by extract_metadata
    validation_issues,  \* value returned by validate_metadata
    displayed,          \* what the display stage rendered
    arg,                \* argument of a function called on its own
    result              \* its result

vars == <<pc, pdf, page_num, text_content, fast_text, fallback_text,
          fallback_ran, exc, st_errors, ret_text, user_inputs, request,
          requests, response_text, metadata, validation_issues, displayed,
          arg, result>>

(***************************************************************************)
(* Bounds of the model.                                                    *)
(***************************************************************************)
MaxPages == 2
MaxRows == 2
MaxCols == 2
MaxSegs == 6

(***************************************************************************)
(* Program constants.                                                      *)
(***************************************************************************)
Threshold == 1000
PromptLimit == 30000

(***************************************************************************)
(* Python values.  A str holding PDF text is Text(<<chars>>); a str of a   *)
(* JSON document or of a hint is Str("...").                               *)
(***************************************************************************)
None == [t |-> "none"]
Text(s) == [t |-> "text", s |-> s]
Str(s) == [t |-> "str", s |-> s]
Num(s) == [t |-> "num", s |-> s]
Dict(d) == [t |-> "dict", d |-> d]
List(e) == [t |-> "list", e |-> e]
EmptyDict == [k \in {} |-> None]

\* Python truth value (bool(v)), as used by `if v:` and `not v`.
Truthy(v) ==
    CASE v.t = "none" -> FALSE
      [] v.t = "text" -> v.s # <<>>
      [] v.t = "str"  -> v.s # ""
      [] v.t = "num"  -> v.s # "0"
      [] v.t = "dict" -> DOMAIN v.d # {}
      [] v.t = "list" -> v.e # <<>>

\* dict.get(key, default): the default is used only when the key is absent.
DictGet(d, key, default) == IF key \in DOMAIN d THEN d[key] ELSE default

\* v.get(key, default) on an arbitrary value: only a dict has .get.
HasGet(v) == v.t = "dict"

Min(S) == CHOOSE m \in S : \A n \in S : m <= n
Max(S) == CHOOSE m \in S : \A n \in S : m >= n

(***************************************************************************)
(* Character strings.                                                      *)
(***************************************************************************)
IsSpace(c) == c \in {" ", "\n", "\t", "\r"}

\* str.strip(): leading and trailing whitespace removed.
Strip(s) ==
    IF \A i \in 1..Len(s) : IsSpace(s[i]) THEN <<>>
    ELSE LET first == CHOOSE i \in 1..Len(s) :
                          ~IsSpace(s[i]) /\ \A j \in 1..(i - 1) : IsSpace(s[j])
             back == CHOOSE k \in 1..Len(s) :
                          /\ ~IsSpace(s[Len(s) + 1 - k])
                          /\ \A j \in (Len(s) + 2 - k)..Len(s) : IsSpace(s[j])
         IN  SubSeq(s, first, Len(s) + 1 - back)

\* s[:n]
Take(s, n) == IF Len(s) <= n THEN s ELSE SubSeq(s, 1, n)

Digit(d) ==
    CASE d = 0 -> "0" [] d = 1 -> "1" [] d = 2 -> "2" [] d = 3 -> "3"
      [] d = 4 -> "4" [] d = 5 -> "5" [] d = 6 -> "6" [] d = 7 -> "7"
      [] d = 8 -> "8" [] d = 9 -> "9"

\* str(n) of a natural number, as an f-string renders it.
RECURSIVE IntStr(_)
IntStr(n) == IF n < 10 THEN <<Digit(n)>>
             ELSE IntStr(n \div 10) \o <<Digit(n % 10)>>

\* str(cell) of a table cell.
CellStr(cell) == IF cell.t = "none" THEN <<"N", "o", "n", "e">> ELSE cell.s

\* sep.join(parts)
RECURSIVE Join(_, _)
Join(sep, parts) ==
    IF parts = <<>> THEN <<>>
    ELSE IF Len(parts) = 1 THEN parts[1]
    ELSE parts[1] \o sep \o Join(sep, Tail(parts))

\* f"\n--- Page {page_num + 1} ---\n"
PageMarker(n) ==
    <<"\n", "-", "-", "-", " ", "P", "a", "g", "e", " ">> \o IntStr(n + 1)
    \o <<" ", "-", "-", "-", "\n">>

\* f"\n--- Page {i + 1} (pdfplumber) ---\n"
PlumberMarker(i) ==
    <<"\n", "-", "-", "-", " ", "P", "a", "g", "e", " ">> \o IntStr(i + 1)
    \o <<" ", "(", "p", "d", "f", "p", "l", "u", "m", "b", "e", "r", ")",
         " ", "-", "-", "-", "\n">>

\* f"\n[Table {j+1} on Page {i+1}]\n"
TableHeader(j, i) ==
    <<"\n", "[", "T", "a", "b", "l", "e", " ">> \o IntStr(j + 1)
    \o <<" ", "o", "n", " ", "P", "a", "g", "e", " ">> \o IntStr(i + 1)
    \o <<"]", "\n">>

\* A mutant of SerializeRow: str(cell) for every cell.
SerializeRow_str(row) ==
    Join(<<" ", "|", " ">>, [k \in 1..Len(row) |-> CellStr(row[k])])
    \o <<"\n">>

\* " | ".join([str(cell) if cell else "" for cell in row]) + "\n"
SerializeRow(row) ==
    Join(<<" ", "|", " ">>,
         [k \in 1..Len(row) |->
             IF Truthy(row[k]) THEN CellStr(row[k]) ELSE <<>>])
    \o <<"\n">>

\* for row in table: if row: text_content += ...
RECURSIVE SerializeRows(_)
SerializeRows(table) ==
    IF table = <<>> THEN <<>>
    ELSE (IF table[1] # <<>> THEN SerializeRow(table[1]) ELSE <<>>)
         \o SerializeRows(Tail(table))

\* The block appended for table j of page i.
TableBlock(j, i, table) == TableHeader(j, i) \o SerializeRows(table)

\* for j, table in enumerate(tables): the blocks of tables j.. of page i.
RECURSIVE TableBlocks(_, _, _)
TableBlocks(j, i, tables) ==
    IF j >= Len(tables) THEN <<>>
    ELSE TableBlock(j, i, tables[j + 1]) \o TableBlocks(j + 1, i, tables)

\* What one iteration of the pdfplumber loop appends for page i.
PlumberPageText(i, page) ==
    PlumberMarker(i)
    \o (IF Truthy(page.plumber) THEN page.plumber.s ELSE <<>>)
    \o TableBlocks(0, i, page.tables)

\* What one iteration of the PyMuPDF loop appends for page page_num.
FitzPageText(n, page) == PageMarker(n) \o page.fitz

\* A mutant of Accumulate: assignment instead of +=.
Accumulate_assign(acc, piece) == piece

\* text_content += piece
Accumulate(acc, piece) == acc \o piece

\* A mutant of NeedsFallback: <= instead of <.
NeedsFallback_le(text) == Len(Strip(text)) <= Threshold

\* len(text_content.strip()) < 1000
NeedsFallback(text) == Len(Strip(text)) < Threshold

\* The classes `except Exception` catches: every exception the engines,
\* the client and the parser raise derives from Exception.
ExceptionClasses ==
    {"OSError", "FileDataError", "PDFSyntaxError", "APIError", "TypeError",
     "JSONDecodeError", "AttributeError"}

\* A mutant of ExtractCatches: only the PyMuPDF error is caught.
ExtractCatches_fitz(e) == e = "FileDataError"

\* except Exception as e (extract_text_from_pdf)
ExtractCatches(e) == e \in ExceptionClasses

(***************************************************************************)
(* The reply of the completion endpoint, as lexemes.                       *)
(***************************************************************************)
Fence == [k |-> "fence", v |-> "BT3"]        \* three backticks
Word(w) == [k |-> "word", v |-> w]           \* a run of letters
Ws(c) == [k |-> "ws", v |-> c]               \* one whitespace character
Punct(p) == [k |-> "punct", v |-> p]         \* { } [ ] : ,
QStr(s) == [k |-> "qstr", v |-> s]           \* a double-quoted JSON string
NumLex(n) == [k |-> "numlex", v |-> n]       \* a JSON number

\* The regular expression's \s
IsWs(x) == x.k = "ws"
AllWs(t, from, to) == \A n \in from..to : IsWs(t[n])

\* The pattern's literal prefix, three backticks then json, matches at i.
OpensAt(t, i) == i + 1 <= Len(t) /\ t[i] = Fence /\ t[i + 1] = Word("json")

\* Every way the pattern  ```json \s* (.*?) \s* ```  (re.DOTALL) matches in
\* t: <<i, a, b, q>> with the prefix at i, the first \s* over i+2..a-1, the
\* group over a..b-1, the second \s* over b..q-1 and the closing backticks
\* at q.
Matches(t) ==
    UNION { UNION { UNION { { <<i, a, b, q>> :
                              b \in {b \in a..q : AllWs(t, b, q - 1)} } :
                q \in {q \in a..Len(t) : t[q] = Fence} } :
            a \in {a \in (i + 2)..(Len(t) + 1) : AllWs(t, i + 2, a - 1)} } :
        i \in {i \in 1..Len(t) : OpensAt(t, i)} }

NoMatch == [matched |-> FALSE, group1 |-> <<>>]

\* A mutant of ReSearch: the group is greedy, (.*) instead of (.*?).
ReSearch_greedy(t) ==
    LET M == Matches(t)
    IN  IF M = {} THEN NoMatch
        ELSE LET i == Min({m[1] : m \in M})
                 a == Max({m[2] : m \in {n \in M : n[1] = i}})
                 b == Max({m[3] : m \in {n \in M : n[1] = i /\ n[2] = a}})
             IN  [matched |-> TRUE, group1 |-> SubSeq(t, a, b - 1)]

\* re.search(pattern, t, re.DOTALL): the leftmost match; at that start the
\* backtracking matcher prefers the longest first \s* (greedy), then the
\* shortest group (lazy).
ReSearch(t) ==
    LET M == Matches(t)
    IN  IF M = {} THEN NoMatch
        ELSE LET i == Min({m[1] : m \in M})
                 a == Max({m[2] : m \in {n \in M : n[1] = i}})
                 b == Min({m[3] : m \in {n \in M : n[1] = i /\ n[2] = a}})
             IN  [matched |-> TRUE, group1 |-> SubSeq(t, a, b - 1)]

(***************************************************************************)
(* json.loads on lexemes: a recursive-descent parser of JSON values.       *)
(***************************************************************************)
ParseFail == [ok |-> FALSE, v |-> None, next |-> 0]
ParseOk(v, next) == [ok |-> TRUE, v |-> v, next |-> next]

RECURSIVE ParseValue(_, _), ParseMembers(_, _, _), ParseElements(_, _, _)

ParseValue(t, i) ==
    IF i > Len(t) THEN ParseFail
    ELSE CASE t[i].k = "qstr" -> ParseOk(Str(t[i].v), i + 1)
           [] t[i].k = "numlex" -> ParseOk(Num(t[i].v), i + 1)
           [] t[i] = Word("null") -> ParseOk(None, i + 1)
           [] t[i] = Punct("{") ->
                IF i + 1 <= Len(t) /\ t[i + 1] = Punct("}")
                THEN ParseOk(Dict(EmptyDict), i + 2)
                ELSE ParseMembers(t, i + 1, EmptyDict)
           [] t[i] = Punct("[") ->
                IF i + 1 <= Len(t) /\ t[i + 1] = Punct("]")
                THEN ParseOk(List(<<>>), i + 2)
                ELSE ParseElements(t, i + 1, <<>>)
           [] OTHER -> ParseFail

\* "key" : value, then either a comma and more members or the closing brace;
\* a repeated key keeps its last value.
ParseMembers(t, i, acc) ==
    IF ~(i + 1 <= Len(t) /\ t[i].k = "qstr" /\ t[i + 1] = Punct(":"))
    THEN ParseFail
    ELSE LET r == ParseValue(t, i + 2)
         IN  IF ~r.ok \/ r.next > Len(t) THEN ParseFail
             ELSE LET d == (t[i].v :> r.v) @@ acc
                  IN  CASE t[r.next] = Punct(",") ->
                             ParseMembers(t, r.next + 1, d)
                        [] t[r.next] = Punct("}") ->
                             ParseOk(Dict(d), r.next + 1)
                        [] OTHER -> ParseFail

ParseElements(t, i, acc) ==
    LET r == ParseValue(t, i)
    IN  IF ~r.ok \/ r.next > Len(t) THEN ParseFail
        ELSE CASE t[r.next] = Punct(",") ->
                    ParseElements(t, r.next + 1, Append(acc, r.v))
               [] t[r.next] = Punct("]") ->
                    ParseOk(List(Append(acc, r.v)), r.next + 1)
               [] OTHER -> ParseFail

\* json.loads(s): whitespace between lexemes is skipped, one value must
\* span the whole text; otherwise JSONDecodeError (ok = FALSE).
JsonLoads(s) ==
    LET t == SelectSeq(s, LAMBDA x : ~IsWs(x))
        r == ParseValue(t, 1)
    IN  IF r.ok /\ r.next = Len(t) + 1
        THEN [ok |-> TRUE, v |-> r.v]
        ELSE [ok |-> FALSE, v |-> None]

\* The reply as the client hands it over: a str of lexemes, or None.
Reply(s) == [t |-> "reply", s |-> s]

\* The tail of extract_metadata, from response_text to the return value:
\* [ret, error], error naming the st.error message ("" when none).
ParseReply(reply) ==
    IF reply.t = "none"
    THEN \* re.search(pattern, None) raises TypeError: except Exception
         [ret |-> None, error |-> "Error calling Azure OpenAI"]
    ELSE LET json_match == ReSearch(reply.s)
             json_str == IF json_match.matched THEN json_match.group1
                         ELSE reply.s
             loaded == JsonLoads(json_str)
         IN  IF loaded.ok
             THEN [ret |-> loaded.v, error |-> ""]
             ELSE [ret |-> None, error |-> "Error parsing JSON response"]

(***************************************************************************)
(* create_extraction_prompt.  The two prompts are fixed templates; the     *)
(* user prompt is represented by the values that fill its holes.           *)
(***************************************************************************)
\* An f-string's rendering of a hint: str(v).
FmtHint(v) == IF v.t = "none" THEN "None" ELSE v.s

create_extraction_prompt(text, inputs) ==
    [system |-> "system_prompt",
     user |-> [document |-> Take(text, PromptLimit),
               wilayah |-> FmtHint(DictGet(inputs, "wilayah", Str("Tidak diisi"))),
               periode |-> FmtHint(DictGet(inputs, "periode", Str("Tidak diisi"))),
               catatan |-> FmtHint(DictGet(inputs, "catatan", Str("Tidak ada")))]]

(***************************************************************************)
(* validate_metadata.                                                      *)
(***************************************************************************)
Issue(msg, field) == [msg |-> msg, field |-> field]
EmptyIssue == Issue("Metadata is empty or invalid", "")
MissingIssue(field) == Issue("Missing required field in metadata_umum: ", field)
PeriodeIssue ==
    Issue("Periode tidak konsisten antara metadata_umum dan metadata_analisis_khusus", "")
JudulIssue ==
    Issue("Judul dokumen tidak konsisten antara metadata_umum dan metadata_analisis_khusus", "")

required_umum == <<"judul_dokumen", "periode", "wilayah", "kategori">>

Returned(issues) == [raised |-> FALSE, issues |-> issues]
\* AttributeError: the value has no attribute get.
RaisedAttributeError == [raised |-> TRUE, issues |-> <<>>]

validate_metadata(md) ==
    IF ~Truthy(md) THEN Returned(<<EmptyIssue>>)
    ELSE IF ~HasGet(md) THEN RaisedAttributeError
    ELSE LET umum == DictGet(md.d, "metadata_umum", Dict(EmptyDict))
             analisis == DictGet(md.d, "metadata_analisis_khusus", None)
         IN  IF ~HasGet(umum) THEN RaisedAttributeError
             ELSE LET missing ==
                          SelectSeq(required_umum,
                                    LAMBDA f : ~Truthy(DictGet(umum.d, f, None)))
                      issues == [k \in 1..Len(missing) |-> MissingIssue(missing[k])]
                  IN  IF ~Truthy(analisis) THEN Returned(issues)
                      ELSE IF ~HasGet(analisis) THEN RaisedAttributeError
                      ELSE Returned(
                             issues
                             \o (IF DictGet(umum.d, "periode", None)
                                    # DictGet(analisis.d, "periode", None)
                                 THEN <<PeriodeIssue>> ELSE <<>>)
                             \o (IF DictGet(umum.d, "judul_dokumen", None)
                                    # DictGet(analisis.d, "judul_dokumen", None)
                                 THEN <<JudulIssue>> ELSE <<>>))

(***************************************************************************)
(* Inputs of the pipeline: the uploaded documents, the hints typed into    *)
(* the sidebar and the replies of the endpoint.                            *)
(***************************************************************************)
Fill(n) == [k \in 1..n |-> "x"]

\* The table of the specification's example: [["A","B"],[None,"C"]].
ExampleTable == << <<Text(<<"A">>), Text(<<"B">>)>>, <<None, Text(<<"C">>)>> >>

\* A page is what the two engines find on it: page.get_text() (fitz),
\* page.extract_text() and page.extract_tables() (pdfplumber).
Page(fitz, plumber, tables) ==
    [fitz |-> fitz, plumber |-> plumber, tables |-> tables]

\* One page makes len(text_content) = 16 + len(get_text()): the long pages
\* put the accumulated text just below, at and just above the threshold.
PageSamples ==
    { Page(<<>>, None, <<>>),
      Page(<<" ", "\n">>, Text(<<>>), <<>>),
      Page(<<"a", "b">>, Text(<<"a", "b">>), <<ExampleTable>>) }
    \cup { Page(Fill(n), Text(<<"x">>), <<>>) :
             n \in {Threshold - 17, Threshold - 16, Threshold - 15} }

RECURSIVE SeqsUpTo(_, _)
SeqsUpTo(S, n) ==
    IF n = 0 THEN {<<>>}
    ELSE LET R == SeqsUpTo(S, n - 1)
         IN  R \cup {Append(r, x) : r \in {q \in R : Len(q) = n - 1}, x \in S}

Pdfs == {[pages |-> p] : p \in SeqsUpTo(PageSamples, MaxPages)}
NoPdf == [pages |-> <<>>]

\* user_inputs as main builds it: all three keys, "" for an empty widget.
Hints(wilayah, periode, catatan) ==
    ("wilayah" :> wilayah) @@ ("periode" :> periode) @@ ("catatan" :> catatan)
HintSamples ==
    { Hints(Str(""), Str(""), Str("")),
      Hints(Str("Provinsi Riau"), Str("Q1 2025"), Str("")) }

\* JSON documents as lexemes.
Member(key, value) == <<QStr(key), Punct(":")>> \o value
Object(members) ==
    <<Punct("{")>> \o Join(<<Punct(","), Ws(" ")>>, members) \o <<Punct("}")>>
UmumFull ==
    Object(<< Member("judul_dokumen", <<QStr("X")>>),
              Member("periode", <<QStr("Q1")>>),
              Member("wilayah", <<QStr("R")>>),
              Member("kategori", <<QStr("KFR")>>) >>)
DocConsistent ==
    Object(<< Member("metadata_umum", UmumFull),
              Member("metadata_analisis_khusus",
                     Object(<< Member("judul_dokumen", <<QStr("X")>>),
                               Member("periode", <<QStr("Q1")>>) >>)),
              Member("metadata_tabel_strategis", <<Punct("["), Punct("]")>>) >>)
DocIssues ==
    Object(<< Member("metadata_umum",
                     Object(<< Member("judul_dokumen", <<QStr("X")>>),
                               Member("periode", <<Word("null")>>) >>)),
              Member("metadata_analisis_khusus",
                     Object(<< Member("periode", <<QStr("Q2")>>) >>)) >>)
DocNullSection ==
    Object(<< Member("metadata_umum", <<Word("null")>>),
              Member("metadata_tabel_strategis", <<Punct("["), Punct("]")>>) >>)
DocEmpty == <<Punct("{"), Punct("}")>>
Fenced(doc) ==
    <<Word("Berikut"), Ws(" "), Fence, Word("json"), Ws("\n")>> \o doc
    \o <<Ws("\n"), Fence, Ws(" "), Word("Selesai")>>

EndpointReplies ==
    { Reply(Fenced(DocConsistent)), Reply(DocConsistent), Reply(Fenced(DocIssues)),
      Reply(Fenced(DocNullSection)), Reply(DocEmpty),
      Reply(<<Word("Maaf")>>), Reply(Fenced(<<Word("Maaf")>>)), None }

NoRequest == [system |-> "", user |-> [document |-> <<>>, wilayah |-> "",
                                       periode |-> "", catatan |-> ""]]
NotDisplayed == [shown |-> FALSE, v |-> None]
Shown(v) == [shown |-> TRUE, v |-> v]
NoCall == [fn |-> "", v |-> None]

\* The values a run starts from.
RunStart ==
    /\ pdf = NoPdf
    /\ page_num = 0
    /\ text_content = <<>>
    /\ fast_text = <<>>
    /\ fallback_text = <<>>
    /\ fallback_ran = FALSE
    /\ exc = ""
    /\ st_errors = <<>>
    /\ ret_text = <<>>
    /\ user_inputs = EmptyDict
    /\ request = NoRequest
    /\ requests = 0
    /\ response_text = None
    /\ metadata = None
    /\ validation_issues = <<>>
    /\ displayed = NotDisplayed

pipeVars == <<pdf, page_num, text_content, fast_text, fallback_text,
              fallback_ran, exc, st_errors, ret_text, user_inputs, request,
              requests, response_text, metadata, validation_issues, displayed>>

Init ==
    /\ pc = "idle"
    /\ RunStart
    /\ arg = NoCall
    /\ result = NoCall

(***************************************************************************)
(* main: the handler of the "Extract Metadata" button.  The button is      *)
(* enabled only with a file and an API key, so the handler starts at the   *)
(* call of extract_text_from_pdf.                                          *)
(***************************************************************************)
Click ==
    /\ pc = "idle"
    /\ \E f \in Pdfs : pdf' = f
    /\ pc' = "x_read"
    /\ UNCHANGED <<page_num, text_content, fast_text, fallback_text,
                   fallback_ran, exc, st_errors, ret_text, user_inputs,
                   request, requests, response_text, metadata,
                   validation_issues, displayed, arg, result>>

(***************************************************************************)
(* extract_text_from_pdf.                                                  *)
(***************************************************************************)
extractRest == <<pdf, user_inputs, request, requests, response_text,
                 metadata, validation_issues, displayed, arg, result>>

\* pdf_bytes = pdf_file.read(); pdf_file.seek(0)
ReadFile ==
    /\ pc = "x_read"
    /\ pc' = "x_open"
    /\ UNCHANGED <<page_num, text_content, fast_text, fallback_text,
                   fallback_ran, exc, st_errors, ret_text>>
    /\ UNCHANGED extractRest

ReadFileFails ==
    /\ pc = "x_read"
    /\ exc' = "OSError"
    /\ pc' = "x_except"
    /\ UNCHANGED <<page_num, text_content, fast_text, fallback_text,
                   fallback_ran, st_errors, ret_text>>
    /\ UNCHANGED extractRest

\* doc = fitz.open(stream=pdf_bytes, filetype="pdf")
FitzOpen ==
    /\ pc = "x_open"
    /\ page_num' = 0
    /\ pc' = "x_fast"
    /\ UNCHANGED <<text_content, fast_text, fallback_text, fallback_ran,
                   exc, st_errors, ret_text>>
    /\ UNCHANGED extractRest

\* A corrupt or encrypted file.
FitzOpenFails ==
    /\ pc = "x_open"
    /\ exc' = "FileDataError"
    /\ pc' = "x_except"
    /\ UNCHANGED <<page_num, text_content, fast_text, fallback_text,
                   fallback_ran, st_errors, ret_text>>
    /\ UNCHANGED extractRest

\* One iteration of: for page_num in range(len(doc))
FastPage ==
    /\ pc = "x_fast"
    /\ page_num < Len(pdf.pages)
    /\ LET piece == FitzPageText(page_num, pdf.pages[page_num + 1])
       IN  /\ text_content' = Accumulate(text_content, piece)
           /\ fast_text' = fast_text \o piece
    /\ page_num' = page_num + 1
    /\ UNCHANGED <<pc, fallback_text, fallback_ran, exc, st_errors, ret_text>>
    /\ UNCHANGED extractRest

\* The loop ends; doc.close(); if len(text_content.strip()) < 1000
FastDone ==
    /\ pc = "x_fast"
    /\ page_num = Len(pdf.pages)
    /\ IF NeedsFallback(text_content)
       THEN /\ fallback_ran' = TRUE
            /\ pc' = "x_plumber"
       ELSE /\ fallback_ran' = FALSE
            /\ pc' = "x_return"
    /\ UNCHANGED <<page_num, text_content, fast_text, fallback_text, exc,
                   st_errors, ret_text>>
    /\ UNCHANGED extractRest

\* pdf_file.seek(0); with pdfplumber.open(pdf_file) as pdf
PlumberOpen ==
    /\ pc = "x_plumber"
    /\ page_num' = 0
    /\ pc' = "x_fallback"
    /\ UNCHANGED <<text_content, fast_text, fallback_text, fallback_ran,
                   exc, st_errors, ret_text>>
    /\ UNCHANGED extractRest

PlumberOpenFails ==
    /\ pc = "x_plumber"
    /\ exc' = "PDFSyntaxError"
    /\ pc' = "x_except"
    /\ UNCHANGED <<page_num, text_content, fast_text, fallback_text,
                   fallback_ran, st_errors, ret_text>>
    /\ UNCHANGED extractRest

\* One iteration of: for i, page in enumerate(pdf.pages)
PlumberPage ==
    /\ pc = "x_fallback"
    /\ page_num < Len(pdf.pages)
    /\ LET piece == PlumberPageText(page_num, pdf.pages[page_num + 1])
       IN  /\ text_content' = Accumulate(text_content, piece)
           /\ fallback_text' = fallback_text \o piece
    /\ page_num' = page_num + 1
    /\ UNCHANGED <<pc, fast_text, fallback_ran, exc, st_errors, ret_text>>
    /\ UNCHANGED extractRest

\* page.extract_text() or page.extract_tables() throws, after the page's
\* marker was appended.
PlumberPageFails ==
    /\ pc = "x_fallback"
    /\ page_num < Len(pdf.pages)
    /\ text_content' = Accumulate(text_content, PlumberMarker(page_num))
    /\ fallback_text' = fallback_text \o PlumberMarker(page_num)
    /\ exc' = "PDFSyntaxError"
    /\ pc' = "x_except"
    /\ UNCHANGED <<page_num, fast_text, fallback_ran, st_errors, ret_text>>
    /\ UNCHANGED extractRest

PlumberDone ==
    /\ pc = "x_fallback"
    /\ page_num = Len(pdf.pages)
    /\ pc' = "x_return"
    /\ UNCHANGED <<page_num, text_content, fast_text, fallback_text,
                   fallback_ran, exc, st_errors, ret_text>>
    /\ UNCHANGED extractRest

\* except Exception as e: st.error(...); return ""
ExtractExcept ==
    /\ pc = "x_except"
    /\ IF ExtractCatches(exc)
       THEN /\ st_errors' = Append(st_errors, "Error extracting text")
            /\ ret_text' = <<>>
            /\ pc' = "x_returned"
       ELSE /\ pc' = "x_raised"
            /\ UNCHANGED <<st_errors, ret_text>>
    /\ UNCHANGED <<page_num, text_content, fast_text, fallback_text,
                   fallback_ran, exc>>
    /\ UNCHANGED extractRest

\* return text_content
ExtractReturn ==
    /\ pc = "x_return"
    /\ ret_text' = text_content
    /\ pc' = "x_returned"
    /\ UNCHANGED <<page_num, text_content, fast_text, fallback_text,
                   fallback_ran, exc, st_errors>>
    /\ UNCHANGED extractRest

(***************************************************************************)
(* main, after extract_text_from_pdf returned.                             *)
(***************************************************************************)
\* A mutant of IsBlank: the text is tested against None only.
IsBlank_none(text) == FALSE

\* not text_content.strip()
IsBlank(text) == Strip(text) = <<>>

extractVars == <<page_num, text_content, fast_text, fallback_text,
                 fallback_ran, ret_text>>

\* if not text_content.strip(): st.error(...)  else: user_inputs = {...}
MainCheckText ==
    /\ pc = "x_returned"
    /\ IF IsBlank(ret_text)
       THEN /\ st_errors' = Append(st_errors, "Gagal mengekstrak text dari PDF")
            /\ pc' = "done"
            /\ UNCHANGED user_inputs
       ELSE /\ \E h \in HintSamples : user_inputs' = h
            /\ pc' = "m_call"
            /\ UNCHANGED st_errors
    /\ UNCHANGED <<pdf, exc, request, requests, response_text, metadata,
                   validation_issues, displayed, arg, result>>
    /\ UNCHANGED extractVars

(***************************************************************************)
(* extract_metadata.                                                       *)
(***************************************************************************)
\* The prompts are built and self.client.chat.completions.create is called.
MetaRequest ==
    /\ pc = "m_call"
    /\ request' = create_extraction_prompt(ret_text, user_inputs)
    /\ requests' = requests + 1
    /\ pc' = "m_wait"
    /\ UNCHANGED <<pdf, exc, st_errors, user_inputs, response_text, metadata,
                   validation_issues, displayed, arg, result>>
    /\ UNCHANGED extractVars

\* The call returns: response_text = response.choices[0].message.content
MetaReply ==
    /\ pc = "m_wait"
    /\ \E r \in EndpointReplies : response_text' = r
    /\ pc' = "m_parse"
    /\ UNCHANGED <<pdf, exc, st_errors, user_inputs, request, requests,
                   metadata, validation_issues, displayed, arg, result>>
    /\ UNCHANGED extractVars

\* A mutant of MetaApiFails: the request is issued again.
MetaApiFails_retry ==
    /\ pc = "m_wait"
    /\ exc' = "APIError"
    /\ pc' = "m_call"
    /\ UNCHANGED <<pdf, st_errors, user_inputs, request, requests,
                   response_text, metadata, validation_issues, displayed,
                   arg, result>>
    /\ UNCHANGED extractVars

\* The call raises (network, authentication, rate limit):
\* except Exception as e: st.error(...); return None
MetaApiFails ==
    /\ pc = "m_wait"
    /\ exc' = "APIError"
    /\ st_errors' = Append(st_errors, "Error calling Azure OpenAI")
    /\ metadata' = None
    /\ pc' = "m_returned"
    /\ UNCHANGED <<pdf, user_inputs, request, requests, response_text,
                   validation_issues, displayed, arg, result>>
    /\ UNCHANGED extractVars

\* The reply is searched for a fenced block and parsed; both handlers
\* report and return None.
MetaParse ==
    /\ pc = "m_parse"
    /\ LET r == ParseReply(response_text)
       IN  /\ metadata' = r.ret
           /\ IF r.error = ""
              THEN UNCHANGED <<st_errors, exc>>
              ELSE /\ st_errors' = Append(st_errors, r.error)
                   /\ exc' = IF r.error = "Error parsing JSON response"
                             THEN "JSONDecodeError" ELSE "TypeError"
    /\ pc' = "m_returned"
    /\ UNCHANGED <<pdf, user_inputs, request, requests, response_text,
                   validation_issues, displayed, arg, result>>
    /\ UNCHANGED extractVars

(***************************************************************************)
(* main, after extract_metadata returned.                                  *)
(***************************************************************************)
\* if metadata: ... else: st.error(...)
MainCheckMetadata ==
    /\ pc = "m_returned"
    /\ IF Truthy(metadata)
       THEN /\ pc' = "validate"
            /\ UNCHANGED st_errors
       ELSE /\ st_errors' = Append(st_errors, "Gagal mengekstrak metadata")
            /\ pc' = "done"
    /\ UNCHANGED <<pdf, exc, user_inputs, request, requests, response_text,
                   metadata, validation_issues, displayed, arg, result>>
    /\ UNCHANGED extractVars

\* validation_issues = validate_metadata(metadata); an exception raised in
\* it is caught nowhere in main.
Validate ==
    /\ pc = "validate"
    /\ LET v == validate_metadata(metadata)
       IN  IF v.raised
           THEN /\ exc' = "AttributeError"
                /\ pc' = "v_raised"
                /\ UNCHANGED validation_issues
           ELSE /\ validation_issues' = v.issues
                /\ pc' = "display"
                /\ UNCHANGED exc
    /\ UNCHANGED <<pdf, st_errors, user_inputs, request, requests,
                   response_text, metadata, displayed, arg, result>>
    /\ UNCHANGED extractVars

\* The issues are listed as a warning and the metadata is rendered.
Display ==
    /\ pc = "display"
    /\ displayed' = Shown(metadata)
    /\ pc' = "done"
    /\ UNCHANGED <<pdf, exc, st_errors, user_inputs, request, requests,
                   response_text, metadata, validation_issues, arg, result>>
    /\ UNCHANGED extractVars

\* The script ends (or the exception is shown) and the page waits for the
\* next press of the button.
Rerun ==
    /\ pc \in {"done", "x_raised", "v_raised"}
    /\ pc' = "idle"
    /\ pdf' = NoPdf
    /\ page_num' = 0
    /\ text_content' = <<>>
    /\ fast_text' = <<>>
    /\ fallback_text' = <<>>
    /\ fallback_ran' = FALSE
    /\ exc' = ""
    /\ st_errors' = <<>>
    /\ ret_text' = <<>>
    /\ user_inputs' = EmptyDict
    /\ request' = NoRequest
    /\ requests' = 0
    /\ response_text' = None
    /\ metadata' = None
    /\ validation_issues' = <<>>
    /\ displayed' = NotDisplayed
    /\ UNCHANGED <<arg, result>>

Next ==
    \/ Click
    \/ ReadFile
    \/ ReadFileFails
    \/ FitzOpen
    \/ FitzOpenFails
    \/ FastPage
    \/ FastDone
    \/ PlumberOpen
    \/ PlumberOpenFails
    \/ PlumberPage
    \/ PlumberPageFails
    \/ PlumberDone
    \/ ExtractExcept
    \/ ExtractReturn
    \/ MainCheckText
    \/ MetaRequest
    \/ MetaReply
    \/ MetaApiFails
    \/ MetaParse
    \/ MainCheckMetadata
    \/ Validate
    \/ Display
    \/ Rerun

Spec == Init /\ [][Next]_vars

(***************************************************************************)
(* The functions called on their own, on inputs drawn from bounded sets.   *)
(***************************************************************************)
Call(fn, v) == [fn |-> fn, v |-> v]
Absent == [t |-> "absent"]

\* The dict holding the keys of f whose value is not Absent.
MkDict(f) == [k \in {x \in DOMAIN f : f[x] # Absent} |-> f[k]]

\* Tables as page.extract_tables() returns them: rows of cells, a cell a
\* str or None.
Cells == {None, Text(<<>>), Text(<<"A">>)}
Rows == SeqsUpTo(Cells, MaxCols)
Tables == SeqsUpTo(Rows, MaxRows) \cup {ExampleTable}
TableInputs == {[j |-> n[1], i |-> n[2], table |-> t] :
                  n \in {<<0, 0>>, <<1, 11>>}, t \in Tables}

InitTable ==
    /\ pc = "call"
    /\ RunStart
    /\ arg \in {Call("TableBlock", x) : x \in TableInputs}
    /\ result = NoCall

CallTableBlock ==
    /\ pc = "call"
    /\ arg.fn = "TableBlock"
    /\ result' = Call("TableBlock", TableBlock(arg.v.j, arg.v.i, arg.v.table))
    /\ pc' = "ret"
    /\ UNCHANGED arg
    /\ UNCHANGED pipeVars

SpecTable == InitTable /\ [][CallTableBlock]_vars

\* Replies put together from at most MaxSegs pieces: an opening fence, a
\* bare fence, a line break, the JSON object {"a":1} and a word.
ObjectA == <<Punct("{"), QStr("a"), Punct(":"), NumLex("1"), Punct("}")>>
Segments == { <<Fence, Word("json")>>, <<Fence>>, <<Ws("\n")>>, ObjectA,
              <<Word("x")>> }
RECURSIVE Concats(_)
Concats(n) ==
    IF n = 0 THEN {<<>>}
    ELSE LET R == Concats(n - 1)
         IN  R \cup {r \o g : r \in R, g \in Segments}
ReplyInputs == {Reply(t) : t \in Concats(MaxSegs)} \cup {None}

InitParse ==
    /\ pc = "call"
    /\ RunStart
    /\ arg \in {Call("ParseReply", x) : x \in ReplyInputs}
    /\ result = NoCall

CallParseReply ==
    /\ pc = "call"
    /\ arg.fn = "ParseReply"
    /\ result' = Call("ParseReply", ParseReply(arg.v))
    /\ pc' = "ret"
    /\ UNCHANGED arg
    /\ UNCHANGED pipeVars

SpecParse == InitParse /\ [][CallParseReply]_vars

\* Hints mappings: each key absent, None, empty or filled.
HintInputs ==
    { MkDict(Hints(w, p, c)) :
        w \in {Absent, None, Str(""), Str("Provinsi Riau")},
        p \in {Absent, None, Str(""), Str("Q1 2025")},
        c \in {Absent, None, Str(""), Str("lihat Bab III")} }
PromptInputs ==
    {[text |-> t, user_inputs |-> h] :
       t \in {<<"a">>, Fill(PromptLimit + 1)}, h \in HintInputs}

InitPrompt ==
    /\ pc = "call"
    /\ RunStart
    /\ arg \in {Call("create_extraction_prompt", x) : x \in PromptInputs}
    /\ result = NoCall

CallCreatePrompt ==
    /\ pc = "call"
    /\ arg.fn = "create_extraction_prompt"
    /\ result' = Call("create_extraction_prompt",
                      create_extraction_prompt(arg.v.text, arg.v.user_inputs))
    /\ pc' = "ret"
    /\ UNCHANGED arg
    /\ UNCHANGED pipeVars

SpecPrompt == InitPrompt /\ [][CallCreatePrompt]_vars

\* Metadata as json.loads may return it: sections absent, null, a mapping
\* or another value; fields absent, null, empty or filled.
UmumInputs ==
    {Absent, None}
    \cup { Dict(MkDict(("judul_dokumen" :> j) @@ ("periode" :> p)
                       @@ ("wilayah" :> w) @@ ("kategori" :> k))) :
             j \in {Absent, None, Str("X"), Str("Y")},
             p \in {Absent, Str(""), Str("Q1"), Str("Q2")},
             w \in {Absent, Str("R")},
             k \in {Absent, Str("KFR")} }
AnalisisInputs ==
    {Absent, None, Str("tidak ada")}
    \cup { Dict(MkDict(("judul_dokumen" :> j) @@ ("periode" :> p))) :
             j \in {Absent, Str("X")},
             p \in {Absent, Str("Q1"), Str("Q2")} }
MetadataInputs ==
    {None, List(<<>>), List(<<Num("1")>>)}
    \cup { Dict(MkDict(("metadata_umum" :> u)
                       @@ ("metadata_analisis_khusus" :> a))) :
             u \in UmumInputs, a \in AnalisisInputs }

InitValidate ==
    /\ pc = "call"
    /\ RunStart
    /\ arg \in {Call("validate_metadata", x) : x \in MetadataInputs}
    /\ result = NoCall

CallValidate ==
    /\ pc = "call"
    /\ arg.fn = "validate_metadata"
    /\ result' = Call("validate_metadata", validate_metadata(arg.v))
    /\ pc' = "ret"
    /\ UNCHANGED arg
    /\ UNCHANGED pipeVars

SpecValidate == InitValidate /\ [][CallValidate]_vars

(***************************************************************************)
(* Properties.                                                             *)
(***************************************************************************)

\* C1, as stated: whenever the fast pass yields 1000 or more characters,
\* the fallback pass does not run and the returned text is the fast-pass
\* text exactly.
C1_Original ==
    Len(fast_text) >= Threshold =>
        /\ ~fallback_ran
        /\ pc = "x_returned" => ret_text = fast_text

\* C1, amended: whenever the fast-pass text has 1000 or more characters
\* after its leading and trailing whitespace is stripped, the fallback pass
\* does not run, nothing is thrown and the returned text is the fast-pass
\* text exactly.
C1_StrippedThreshold ==
    Len(Strip(fast_text)) >= Threshold =>
        /\ ~fallback_ran
        /\ pc = "x_returned" => (ret_text = fast_text /\ exc = "")

\* C1 witness: a fast-pass text of exactly 1000 characters after stripping
\* was returned as it is.
C1_Witness ==
    /\ pc = "x_returned"
    /\ Len(Strip(fast_text)) = Threshold
    /\ ~fallback_ran
    /\ ret_text = fast_text

\* C2: when the fast pass yields fewer than 1000 characters and the
\* fallback pass completes, the returned text is the fast-pass text
\* followed by the fallback-pass text.
C2_FallbackAppended ==
    (pc = "x_returned" /\ exc = "" /\ Len(fast_text) < Threshold) =>
        /\ fallback_ran
        /\ ret_text = fast_text \o fallback_text
        /\ SubSeq(ret_text, 1, Len(fast_text)) = fast_text

\* C2 witness: a fast-pass text of 999 characters was returned with the
\* text of the fallback pass behind it.
C2_Witness ==
    /\ pc = "x_returned"
    /\ exc = ""
    /\ Len(fast_text) = Threshold - 1
    /\ fallback_text # <<>>
    /\ ret_text = fast_text \o fallback_text

\* C3: extract_text_from_pdf never raises to its caller: when the read,
\* the fast pass or the fallback pass throws, one error is reported and the
\* empty string is returned; otherwise the accumulated string is returned
\* and no error is reported.
C3_NeverRaises ==
    /\ pc # "x_raised"
    /\ pc = "x_returned" =>
         IF exc # ""
         THEN ret_text = <<>> /\ st_errors = <<"Error extracting text">>
         ELSE ret_text = text_content /\ st_errors = <<>>

\* C3 witness: the fallback pass threw after the fast pass had accumulated
\* text, and the empty string was returned.
C3_Witness ==
    /\ pc = "x_returned"
    /\ exc = "PDFSyntaxError"
    /\ fast_text # <<>>
    /\ text_content # <<>>
    /\ ret_text = <<>>

\* The reply holds a fenced json block: an opening fence and, behind it, a
\* closing fence.
HasFencedBlock(t) ==
    \E i \in 1..Len(t) : OpensAt(t, i) /\ \E q \in (i + 2)..Len(t) : t[q] = Fence

\* The content of the first fenced block: from the first opening fence to
\* the next fence, whitespace at both ends dropped.
FirstBlockContent(t) ==
    LET i == Min({n \in 1..Len(t) : OpensAt(t, n)})
        q == Min({n \in (i + 2)..Len(t) : t[n] = Fence})
        inner == SubSeq(t, i + 2, q - 1)
        keep == {n \in 1..Len(inner) : ~IsWs(inner[n])}
    IN  IF keep = {} THEN <<>> ELSE SubSeq(inner, Min(keep), Max(keep))

\* C4: the reply is parsed with two ordered strategies: the content of the
\* first fenced json block if there is one, whatever precedes or follows
\* it, otherwise the whole reply; the value parsed from the chosen payload
\* is returned, and None, without raising, when the payload is not valid
\* JSON.
C4_ParseStrategies ==
    (pc = "ret" /\ arg.fn = "ParseReply" /\ arg.v # None) =>
        LET t == arg.v.s
            payload == IF HasFencedBlock(t) THEN FirstBlockContent(t) ELSE t
            loaded == JsonLoads(payload)
        IN  /\ result.v.ret = IF loaded.ok THEN loaded.v ELSE None
            /\ loaded.ok <=> result.v.error = ""

\* C4 witness: a reply with text before and after two fenced blocks was
\* parsed to the object of the first block.
C4_Witness ==
    /\ pc = "ret"
    /\ arg.v = Reply(<<Word("x"), Fence, Word("json")>> \o ObjectA
                     \o <<Fence, Word("x"), Fence>>)
    /\ result.v = [ret |-> Dict("a" :> Num("1")), error |-> ""]

\* A hint that was not provided: the key is absent or its value is None.
NotProvided(inputs, key) == key \notin DOMAIN inputs \/ inputs[key] = None

\* C5, as stated: with region and note not provided (None or absent) and
\* period "Q1 2025", the user instruction holds the marker 'Tidak diisi'
\* for the region, the marker 'Tidak ada' for the note and "Q1 2025" for
\* the period.
C5_Original ==
    (/\ pc = "ret"
     /\ arg.fn = "create_extraction_prompt"
     /\ NotProvided(arg.v.user_inputs, "wilayah")
     /\ NotProvided(arg.v.user_inputs, "catatan")
     /\ DictGet(arg.v.user_inputs, "periode", None) = Str("Q1 2025")) =>
        /\ result.v.user.wilayah = "Tidak diisi"
        /\ result.v.user.catatan = "Tidak ada"
        /\ result.v.user.periode = "Q1 2025"

\* The value of a field of a section of the metadata, None when the
\* section or the field is missing.
SectionField(md, section, field) ==
    IF md.t = "dict" /\ section \in DOMAIN md.d /\ md.d[section].t = "dict"
    THEN DictGet(md.d[section].d, field, None)
    ELSE None

\* The issues the three rules prescribe.  A section counts as present when
\* it holds a value that is neither null nor empty.
PrescribedIssues(md) ==
    IF ~Truthy(md) THEN <<EmptyIssue>>
    ELSE LET missing == SelectSeq(required_umum,
                 LAMBDA f : ~Truthy(SectionField(md, "metadata_umum", f)))
             present == /\ md.t = "dict"
                        /\ "metadata_analisis_khusus" \in DOMAIN md.d
                        /\ Truthy(md.d["metadata_analisis_khusus"])
             differs(f) == SectionField(md, "metadata_umum", f)
                           # SectionField(md, "metadata_analisis_khusus", f)
         IN  [k \in 1..Len(missing) |-> MissingIssue(missing[k])]
             \o (IF present /\ differs("periode") THEN <<PeriodeIssue>> ELSE <<>>)
             \o (IF present /\ differs("judul_dokumen") THEN <<JudulIssue>> ELSE <<>>)

\* C6, as stated: validate_metadata returns exactly the issues the three
\* rules prescribe, in order: the single empty-metadata issue for none or
\* empty input, otherwise one issue per required field missing or falsy in
\* metadata_umum, then the period and title mismatch issues of a present
\* metadata_analisis_khusus section, and no others.
C6_Original ==
    (pc = "ret" /\ arg.fn = "validate_metadata") =>
        result.v = Returned(PrescribedIssues(arg.v))

\* C7, as stated, for the non-empty values extract_metadata returns (an
\* empty object the handler treats like None and reports as a failed
\* extraction): validate_metadata completes without raising, whatever
\* fields and sections the model left null, and the run ends with exactly
\* the returned object displayed.
C7_Original ==
    /\ pc # "v_raised"
    /\ (pc = "done" /\ Truthy(metadata)) => displayed = Shown(metadata)

\* C8: an extraction that failed or returned blank text halts the run
\* before prompting: no completion request is issued, nothing is validated
\* or displayed, and the run ends with the extraction error reported.
C8_HaltBeforePrompt ==
    Strip(ret_text) = <<>> =>
        /\ requests = 0
        /\ request = NoRequest
        /\ pc \notin {"m_call", "m_wait", "m_parse", "m_returned",
                      "validate", "display", "v_raised"}
        /\ validation_issues = <<>>
        /\ ~displayed.shown
        /\ pc = "done" =>
             st_errors[Len(st_errors)] = "Gagal mengekstrak text dari PDF"

\* C8 witness: a run whose extraction threw ended without a request.
C8_Witness ==
    /\ pc = "done"
    /\ exc = "FileDataError"
    /\ ret_text = <<>>
    /\ requests = 0
    /\ st_errors = <<"Error extracting text", "Gagal mengekstrak text dari PDF">>

FailureClasses == {"APIError", "JSONDecodeError", "TypeError"}

\* C9: a run issues at most one completion request; when the request fails
\* or the reply does not parse, the error is reported, None is returned and
\* the run reaches neither validation nor display.
C9_SingleRequest ==
    /\ requests <= 1
    /\ (pc = "m_returned" /\ exc \in FailureClasses) =>
          (metadata = None /\ Len(st_errors) = 1 /\ requests = 1)
    /\ exc \in FailureClasses =>
          (/\ pc \notin {"validate", "display", "v_raised"}
           /\ ~displayed.shown
           /\ validation_issues = <<>>)

\* C9 witness: a run whose request failed ended after one request with
\* nothing displayed.
C9_Witness ==
    /\ pc = "done"
    /\ exc = "APIError"
    /\ requests = 1
    /\ metadata = None
    /\ ~displayed.shown
    /\ st_errors = <<"Error calling Azure OpenAI", "Gagal mengekstrak metadata">>

\* A cell as the claim renders it: None as the empty string.
RefCell(cell) == IF cell = None THEN <<>> ELSE cell.s

\* The line of a row: its cells joined by ' | ', built from the left.
RefLine(row) ==
    LET F[k \in 1..Len(row)] ==
            IF k = 1 THEN RefCell(row[1])
            ELSE F[k - 1] \o <<" ", "|", " ">> \o RefCell(row[k])
    IN  F[Len(row)] \o <<"\n">>

\* The lines of the non-empty rows of a table, in order.
RefLines(table) ==
    LET G[k \in 0..Len(table)] ==
            IF k = 0 THEN <<>>
            ELSE G[k - 1] \o (IF table[k] = <<>> THEN <<>> ELSE RefLine(table[k]))
    IN  G[Len(table)]

\* "\n[Table 1 on Page 1]\nA | B\n | C\n"
ExampleBlock ==
    <<"\n", "[", "T", "a", "b", "l", "e", " ", "1", " ", "o", "n", " ",
      "P", "a", "g", "e", " ", "1", "]", "\n",
      "A", " ", "|", " ", "B", "\n", " ", "|", " ", "C", "\n">>

\* The text holds the letters N, o, n, e in a row.
HoldsNone(s) ==
    \E n \in 1..(Len(s) - 3) : SubSeq(s, n, n + 3) = <<"N", "o", "n", "e">>

\* C10: each non-empty row of a table is serialized as one line of its
\* cells joined by ' | ', a None cell as the empty string and never as
\* 'None', after the header naming the table and the page; the table
\* [["A","B"],[None,"C"]] gives 'A | B' and ' | C'.
C10_TableRows ==
    (pc = "ret" /\ arg.fn = "TableBlock") =>
        /\ result.v = TableHeader(arg.v.j, arg.v.i) \o RefLines(arg.v.table)
        /\ ~HoldsNone(result.v)
        /\ (arg.v = [j |-> 0, i |-> 0, table |-> ExampleTable]) =>
              result.v = ExampleBlock

\* C10 witness: the example table was serialized.
C10_Witness ==
    /\ pc = "ret"
    /\ arg.v = [j |-> 0, i |-> 0, table |-> ExampleTable]
    /\ result.v = ExampleBlock

====
